---- MODULE Spec2Model ----
(***************************************************************************)
(* Model of llvm/Support/PassNameParser.h: PassNameParser, a               *)
(* PassRegistrationListener that is also the cl::parser<const PassInfo*>   *)
(* of one command line option, together with FilteredPassNameParser and    *)
(* PassArgFilter.                                                          *)
(*                                                                         *)
(* C strings are sequences of byte values.  A `const char *` is either the *)
(* null pointer, <<>>, or <<s>>, a pointer to the string s.  A PassInfo* is *)
(* the index of the PassInfo in the table PassInfos.                       *)
(***************************************************************************)
EXTENDS Integers, Sequences, FiniteSets, TLC

VARIABLES
    registry,     \* the passes registered so far, in registration order
    Opt,          \* PassNameParser::Opt
    Values,       \* cl::parser<const PassInfo*>::Values
    aborted,      \* abort() has been called: the process is gone
    errs,         \* the pass arguments reported on cerr, in order
    attaches,     \* number of calls of initialize so far
    attachedAt,   \* how many passes were registered when initialize last ran
    renders,      \* the printOptionInfo calls since the last registration or attach
    implCalls,    \* the PassInfos ignorablePassImpl has been evaluated on
    Filtered,     \* the parser is a FilteredPassNameParser<PassArgFilter<Args> >
    Args          \* the template argument of PassArgFilter (<<>> if not Filtered)

vars == <<registry, Opt, Values, aborted, errs, attaches, attachedAt, renders, implCalls,
          Filtered, Args>>

(***************************************************************************)
(* Bounds of the model.                                                    *)
(***************************************************************************)
MaxPasses == 3

MaxAttach == 2

MaxRenders == 2

(***************************************************************************)
(* C strings and pointers.                                                 *)
(***************************************************************************)
NullPtr == << >>

NullOpt == 0

Options == {1}

Str_mem2reg == <<109, 101, 109, 50, 114, 101, 103>>

Str_dce == <<100, 99, 101>>

Str_adce == <<97, 100, 99, 101>>

Str_dse == <<100, 115, 101>>

Str_anders_aa == <<97, 110, 100, 101, 114, 115, 95, 97, 97>>

Str_opt == <<111, 112, 116>>

\* "-anders_aa -dse", the example of the header's comment
AllowedPassArgs == <<45>> \o Str_anders_aa \o <<32, 45>> \o Str_dse

\* "-optimize"
OptimizeArgs == <<45, 111, 112, 116, 105, 109, 105, 122, 101>>

ArgsChoices == {AllowedPassArgs, OptimizeArgs}

(***************************************************************************)
(* The PassInfo objects of the process.  arg is what getPassArgument()     *)
(* returns, ctor whether getNormalCtor() is non-null, name what            *)
(* getPassName() returns.                                                  *)
(***************************************************************************)
PassInfos ==
    << [arg |-> <<Str_mem2reg>>,   ctor |-> TRUE,  name |-> "Promote Memory to Register"],
       [arg |-> <<Str_dce>>,       ctor |-> TRUE,  name |-> "Dead Code Elimination"],
       [arg |-> <<Str_adce>>,      ctor |-> TRUE,  name |-> "Aggressive Dead Code Elimination"],
       [arg |-> <<Str_dse>>,       ctor |-> TRUE,  name |-> "Dead Store Elimination"],
       [arg |-> <<Str_dse>>,       ctor |-> TRUE,  name |-> "Another Dead Store Elimination"],
       [arg |-> <<Str_dse>>,       ctor |-> FALSE, name |-> "Dead Store Analysis"],
       [arg |-> <<Str_anders_aa>>, ctor |-> TRUE,  name |-> "Andersen's Alias Analysis"],
       [arg |-> <<Str_opt>>,       ctor |-> TRUE,  name |-> "Optimizer"],
       [arg |-> << << >> >>,       ctor |-> TRUE,  name |-> "Unnamed Analysis"],
       [arg |-> NullPtr,           ctor |-> TRUE,  name |-> "Analysis Group"] >>

PassIds == 1..Len(PassInfos)

getPassArgument(P) == PassInfos[P].arg

getNormalCtor(P) == PassInfos[P].ctor

getPassName(P) == PassInfos[P].name

(***************************************************************************)
(* std::strstr(haystack, needle) != 0: needle occurs in haystack.  The     *)
(* empty needle occurs in every haystack.                                  *)
(***************************************************************************)
strstr(haystack, needle) ==
    \E i \in 0..(Len(haystack) - Len(needle)) :
        \A k \in 1..Len(needle) : haystack[i + k] = needle[k]

(***************************************************************************)
(* std::string operator<: lexicographic comparison of the bytes.           *)
(***************************************************************************)
RECURSIVE StringLess(_, _)
StringLess(a, b) ==
    IF b = << >> THEN FALSE
    ELSE IF a = << >> THEN TRUE
    ELSE IF Head(a) # Head(b) THEN Head(a) < Head(b)
    ELSE StringLess(Tail(a), Tail(b))

(***************************************************************************)
(* PassArgFilter<Args>::operator(): called with a non-null argument only.  *)
(***************************************************************************)
PassArgFilter(P) == strstr(Args, getPassArgument(P)[1])

(***************************************************************************)
(* ignorablePassImpl: false in PassNameParser, the negated filter in    *)
(* FilteredPassNameParser.                                                 *)
(***************************************************************************)
ignorablePassImpl(P) ==
    IF Filtered THEN ~PassArgFilter(P) ELSE FALSE

(***************************************************************************)
(* ignorablePass: the || chain, evaluated left to right.                   *)
(***************************************************************************)
ignorablePass_NoCtorCheck(P) ==
    IF getPassArgument(P) = NullPtr THEN TRUE
    ELSE IF getPassArgument(P)[1] = << >> THEN TRUE
    ELSE ignorablePassImpl(P)

ignorablePass(P) ==
    IF getPassArgument(P) = NullPtr THEN TRUE
    ELSE IF getPassArgument(P)[1] = << >> THEN TRUE
    ELSE IF ~getNormalCtor(P) THEN TRUE
    ELSE ignorablePassImpl(P)

\* ignorablePassImpl(P) || ... : the refinement evaluated first
callsImpl_ImplFirst(P) == TRUE

\* ignorablePass(P) reaches the call of ignorablePassImpl(P)
callsImpl(P) ==
    /\ getPassArgument(P) # NullPtr
    /\ getPassArgument(P)[1] # << >>
    /\ getNormalCtor(P)

(***************************************************************************)
(* cl::parser: Values is a vector of (name, (value, help)) pairs.          *)
(***************************************************************************)
ValType(n, v, h) == [first |-> n, second |-> [first |-> v, second |-> h]]

getNumOptions(vals) == Len(vals)

\* index (from 0) of the first option called n, getNumOptions if there is none
findOption(vals, n) ==
    IF \E i \in 1..Len(vals) : vals[i].first = n
    THEN (CHOOSE i \in 1..Len(vals) :
              /\ vals[i].first = n
              /\ \A j \in 1..(i - 1) : vals[j].first # n) - 1
    ELSE getNumOptions(vals)

addLiteralOption(vals, n, v, h) == Append(vals, ValType(n, v, h))

(***************************************************************************)
(* passRegistered, as a function of the parser's state                     *)
(* st = [Values, aborted, errs, implCalls] and of Opt.                     *)
(***************************************************************************)
noteImpl(st, P) ==
    [st EXCEPT !.implCalls = IF callsImpl(P) THEN @ \cup {P} ELSE @]

passRegistered_NoDupCheck(st, opt, P) ==
    IF ignorablePass(P) \/ opt = NullOpt THEN noteImpl(st, P)
    ELSE [noteImpl(st, P) EXCEPT
            !.Values = addLiteralOption(@, getPassArgument(P)[1], P, getPassName(P))]

passRegistered_Overwrite(st, opt, P) ==
    IF ignorablePass(P) \/ opt = NullOpt THEN noteImpl(st, P)
    ELSE IF findOption(st.Values, getPassArgument(P)[1]) # getNumOptions(st.Values)
    THEN [noteImpl(st, P) EXCEPT
            !.Values[findOption(st.Values, getPassArgument(P)[1]) + 1] =
                ValType(getPassArgument(P)[1], P, getPassName(P))]
    ELSE [noteImpl(st, P) EXCEPT
            !.Values = addLiteralOption(@, getPassArgument(P)[1], P, getPassName(P))]

passRegistered_NoOptCheck(st, opt, P) ==
    IF ignorablePass(P) THEN noteImpl(st, P)
    ELSE IF findOption(st.Values, getPassArgument(P)[1]) # getNumOptions(st.Values)
    THEN [noteImpl(st, P) EXCEPT
            !.errs = Append(@, getPassArgument(P)[1]),
            !.aborted = TRUE]
    ELSE [noteImpl(st, P) EXCEPT
            !.Values = addLiteralOption(@, getPassArgument(P)[1], P, getPassName(P))]

passRegistered_DupBeforeFilter(st, opt, P) ==
    IF getPassArgument(P) # NullPtr
       /\ findOption(st.Values, getPassArgument(P)[1]) # getNumOptions(st.Values)
    THEN [noteImpl(st, P) EXCEPT
            !.errs = Append(@, getPassArgument(P)[1]),
            !.aborted = TRUE]
    ELSE IF ignorablePass(P) \/ opt = NullOpt THEN noteImpl(st, P)
    ELSE [noteImpl(st, P) EXCEPT
            !.Values = addLiteralOption(@, getPassArgument(P)[1], P, getPassName(P))]

passRegistered(st, opt, P) ==
    IF ignorablePass(P) \/ opt = NullOpt THEN noteImpl(st, P)
    ELSE IF findOption(st.Values, getPassArgument(P)[1]) # getNumOptions(st.Values)
    THEN [noteImpl(st, P) EXCEPT
            !.errs = Append(@, getPassArgument(P)[1]),
            !.aborted = TRUE]
    ELSE [noteImpl(st, P) EXCEPT
            !.Values = addLiteralOption(@, getPassArgument(P)[1], P, getPassName(P))]

passEnumerate_Ignore(st, opt, P) == st

passEnumerate(st, opt, P) == passRegistered(st, opt, P)

(***************************************************************************)
(* PassRegistrationListener::enumeratePasses: passEnumerate for every      *)
(* registered pass, in registration order.  Nothing runs after abort().    *)
(***************************************************************************)
RECURSIVE enumerateFrom(_, _, _)
enumerateFrom(st, opt, passes) ==
    IF passes = << >> \/ st.aborted THEN st
    ELSE enumerateFrom(passEnumerate(st, opt, Head(passes)), opt, Tail(passes))

enumeratePasses_None(st, opt) == st

enumeratePasses(st, opt) == enumerateFrom(st, opt, registry)

(***************************************************************************)
(* ValLessThan and std::sort(Values.begin(), Values.end(), ValLessThan):   *)
(* any permutation in which no element is ValLessThan an earlier one.      *)
(***************************************************************************)
ValLessThan_Reversed(VT1, VT2) == StringLess(VT2.first, VT1.first)

ValLessThan(VT1, VT2) == StringLess(VT1.first, VT2.first)

PermutationsOf(vals) ==
    { [i \in 1..Len(vals) |-> vals[f[i]]] :
        f \in { g \in [1..Len(vals) -> 1..Len(vals)] :
                  \A i, j \in 1..Len(vals) : i # j => g[i] # g[j] } }

sort_NoSort(vals) == {vals}

sort_Reverse(vals) == { [i \in 1..Len(vals) |-> vals[Len(vals) + 1 - i]] }

sort(vals) ==
    { s \in PermutationsOf(vals) :
        \A i, j \in 1..Len(s) : i < j => ~ValLessThan(s[j], s[i]) }

(***************************************************************************)
(* The state of the parser as passRegistered reads and writes it.          *)
(***************************************************************************)
parserState ==
    [Values |-> Values, aborted |-> aborted, errs |-> errs, implCalls |-> implCalls]

setParserState(st) ==
    /\ Values' = st.Values
    /\ aborted' = st.aborted
    /\ errs' = st.errs
    /\ implCalls' = st.implCalls

(***************************************************************************)
(* Init: a freshly constructed parser (Opt(0), no values), subscribed as   *)
(* a listener, in a process that has registered no pass yet.               *)
(***************************************************************************)
Init ==
    /\ registry = << >>
    /\ Opt = NullOpt
    /\ Values = << >>
    /\ aborted = FALSE
    /\ errs = << >>
    /\ attaches = 0
    /\ attachedAt = 0
    /\ renders = << >>
    /\ implCalls = {}
    /\ \/ Filtered = FALSE /\ Args = << >>
       \/ Filtered = TRUE /\ Args \in ArgsChoices

(***************************************************************************)
(* A pass P registers itself: the registry records it and notifies the     *)
(* listener through passRegistered(P).                                     *)
(***************************************************************************)
RegisterPass(P) ==
    /\ ~aborted
    /\ Len(registry) < MaxPasses
    /\ \A i \in 1..Len(registry) : registry[i] # P
    /\ registry' = Append(registry, P)
    /\ setParserState(passRegistered(parserState, Opt, P))
    /\ renders' = << >>
    /\ UNCHANGED <<Opt, attaches, attachedAt, Filtered, Args>>

(***************************************************************************)
(* initialize(O): Opt = &O; cl::parser::initialize(O); enumeratePasses().  *)
(***************************************************************************)
initialize_NoEnumerate(O) ==
    /\ ~aborted
    /\ attaches < MaxAttach
    /\ Opt' = O
    /\ attaches' = attaches + 1
    /\ attachedAt' = Len(registry)
    /\ renders' = << >>
    /\ UNCHANGED <<registry, Values, aborted, errs, implCalls, Filtered, Args>>

\* the replay guarded by "not attached before"
initialize_EnumerateOnce(O) ==
    /\ ~aborted
    /\ attaches < MaxAttach
    /\ Opt' = O
    /\ attaches' = attaches + 1
    /\ attachedAt' = Len(registry)
    /\ setParserState(IF Opt = NullOpt THEN enumeratePasses(parserState, O)
                      ELSE parserState)
    /\ renders' = << >>
    /\ UNCHANGED <<registry, Filtered, Args>>

initialize(O) ==
    /\ ~aborted
    /\ attaches < MaxAttach
    /\ Opt' = O
    /\ attaches' = attaches + 1
    /\ attachedAt' = Len(registry)
    /\ setParserState(enumeratePasses(parserState, O))
    /\ renders' = << >>
    /\ UNCHANGED <<registry, Filtered, Args>>

(***************************************************************************)
(* printOptionInfo(O, GlobalWidth): sorts Values in place through the      *)
(* const_cast, then cl::parser::printOptionInfo prints Values in order.    *)
(***************************************************************************)
\* the sorted table is moved out of Values to be printed, and not put back
printOptionInfo_MovesValues ==
    /\ ~aborted
    /\ Opt # NullOpt
    /\ Len(renders) < MaxRenders
    /\ \E s \in sort(Values) :
          /\ Values' = << >>
          /\ renders' = Append(renders, [before |-> Values, shown |-> s, after |-> << >>])
    /\ UNCHANGED <<registry, Opt, aborted, errs, attaches, attachedAt, implCalls,
                   Filtered, Args>>

printOptionInfo ==
    /\ ~aborted
    /\ Opt # NullOpt
    /\ Len(renders) < MaxRenders
    /\ \E s \in sort(Values) :
          /\ Values' = s
          /\ renders' = Append(renders, [before |-> Values, shown |-> s, after |-> s])
    /\ UNCHANGED <<registry, Opt, aborted, errs, attaches, attachedAt, implCalls,
                   Filtered, Args>>

Next ==
    \/ \E P \in PassIds : RegisterPass(P)
    \/ \E O \in Options : initialize(O)
    \/ printOptionInfo

Spec == Init /\ [][Next]_vars

(***************************************************************************)
(* Vocabulary of the properties.                                           *)
(***************************************************************************)
Range(seq) == { seq[i] : i \in 1..Len(seq) }

TokensOf(vals) == { vals[i].first : i \in 1..Len(vals) }

Occurrences(seq, e) == Cardinality({ i \in 1..Len(seq) : seq[i] = e })

\* a and b hold the same entries, each as often in a as in b
SameEntries(a, b) ==
    /\ Len(a) = Len(b)
    /\ \A e \in Range(a) \cup Range(b) : Occurrences(a, e) = Occurrences(b, e)

\* a precedes b byte-wise: at the first position where they differ a has the
\* smaller byte, or a ends there and b does not
ByteLess(a, b) ==
    \E k \in 1..Len(b) :
        /\ k <= Len(a) + 1
        /\ \A m \in 1..(k - 1) : a[m] = b[m]
        /\ (k = Len(a) + 1 \/ a[k] < b[k])

AscendingByToken(vals) ==
    \A i, j \in 1..Len(vals) : i < j => ~ByteLess(vals[j].first, vals[i].first)

\* the base rule of the Eligibility Filter: a non-empty token and a constructor
BaseRule(P) ==
    /\ getPassArgument(P) # NullPtr
    /\ getPassArgument(P)[1] # << >>
    /\ getNormalCtor(P)

\* the parser admits P
Admitted(P) == ~ignorablePass(P)

Token(P) == getPassArgument(P)[1]

EntryOf(P) == ValType(Token(P), P, getPassName(P))

AdmittedRegistered == { P \in Range(registry) : Admitted(P) }

DistinctAdmittedTokens ==
    \A P, Q \in AdmittedRegistered : P # Q => Token(P) # Token(Q)

\* the step is the registration of pass P
Registers(P) == registry' = Append(registry, P)

\* the step is a call of initialize
Attaches == attaches' = attaches + 1

(***************************************************************************)
(* C1: in every reachable state no two entries of Values carry the same    *)
(* token (pass argument).                                                  *)
(***************************************************************************)
C1_UniqueTokens ==
    \A i, j \in 1..Len(Values) : i # j => Values[i].first # Values[j].first

\* a help rendering had put the two entries in another order than that of
\* their registration when a duplicate of one of them was delivered
C1_Witness ==
    /\ aborted
    /\ Len(Values) = 2
    /\ \E i, j \in 1..Len(registry) :
          /\ i < j
          /\ registry[i] = Values[2].second.first
          /\ registry[j] = Values[1].second.first
    /\ errs[1] \in TokensOf(Values)

(***************************************************************************)
(* C2: when initialize ran once and the admitted passes registered so far  *)
(* have pairwise distinct tokens, wherever the initialize fell among the   *)
(* registrations, the process has not aborted and the tokens of Values are *)
(* exactly the tokens of those passes, one entry each.                     *)
(***************************************************************************)
C2_ExactlyTheAdmitted ==
    (attaches = 1 /\ DistinctAdmittedTokens) =>
        /\ ~aborted
        /\ TokensOf(Values) = { Token(P) : P \in AdmittedRegistered }
        /\ Len(Values) = Cardinality(AdmittedRegistered)

\* three admitted passes, one registered before initialize, two after
C2_Witness ==
    /\ attaches = 1
    /\ attachedAt = 1
    /\ Len(registry) = 3
    /\ \A i \in 1..3 : Admitted(registry[i])
    /\ DistinctAdmittedTokens
    /\ Len(Values) = 3

(***************************************************************************)
(* C3, as claimed: printOptionInfo leaves Values as it was, element by     *)
(* element and in the same order.                                          *)
(***************************************************************************)
C3_RenderLeavesValuesAlone ==
    \A i \in 1..Len(renders) : renders[i].after = renders[i].before

(***************************************************************************)
(* C3, amended: printOptionInfo leaves Values with the same entries, each  *)
(* once, but reorders the vector itself ascending by token.                *)
(***************************************************************************)
C3_RenderReordersValues ==
    \A i \in 1..Len(renders) :
        /\ SameEntries(renders[i].after, renders[i].before)
        /\ AscendingByToken(renders[i].after)
        /\ (i = Len(renders) => Values = renders[i].after)

\* mem2reg, dce, adce before the rendering; adce, dce, mem2reg in Values after it
C3_Witness ==
    /\ Len(renders) = 1
    /\ renders[1].before = <<EntryOf(1), EntryOf(2), EntryOf(3)>>
    /\ Values = <<EntryOf(3), EntryOf(2), EntryOf(1)>>

(***************************************************************************)
(* The tokens of an allow-list string: its space-delimited words, without  *)
(* the leading '-' ("-anders_aa -dse" lists anders_aa and dse).            *)
(***************************************************************************)
WordsOf(str) ==
    { SubSeq(str, i, j) : <<i, j>> \in
        { w \in (1..Len(str)) \X (1..Len(str)) :
            /\ w[1] <= w[2]
            /\ \A k \in w[1]..w[2] : str[k] # 32
            /\ (w[1] = 1 \/ str[w[1] - 1] = 32)
            /\ (w[2] = Len(str) \/ str[w[2] + 1] = 32) } }

AllowedTokens(str) ==
    { IF w[1] = 45 THEN Tail(w) ELSE w : w \in WordsOf(str) }

(***************************************************************************)
(* C4: the allow-list filter admits a pass if and only if the pass passes  *)
(* the base rule and its token equals one of the tokens of the allow-list; *)
(* so the entries of an attached filtered parser are exactly the           *)
(* registered passes of that kind.                                         *)
(***************************************************************************)
C4_ExactTokenAllowList ==
    Filtered =>
        /\ \A P \in Range(registry) :
              Admitted(P) <=> (BaseRule(P) /\ Token(P) \in AllowedTokens(Args))
        /\ (Opt # NullOpt /\ ~aborted) =>
              TokensOf(Values) =
                  { Token(P) : P \in { Q \in Range(registry) :
                        BaseRule(Q) /\ Token(Q) \in AllowedTokens(Args) } }

(***************************************************************************)
(* C5: of two admitted passes sharing a token delivered to an attached     *)
(* parser, the first gets the entry and the second takes the fatal path:   *)
(* the token is reported once, the process aborts, Values is left as it    *)
(* was.  Every entry is the one of the first admitted pass with its token, *)
(* with that pass and its name.                                            *)
(***************************************************************************)
FirstAdmitted(tok) ==
    registry[CHOOSE i \in 1..Len(registry) :
                /\ Admitted(registry[i]) /\ Token(registry[i]) = tok
                /\ \A j \in 1..(i - 1) :
                      ~(Admitted(registry[j]) /\ Token(registry[j]) = tok)]

C5_State ==
    /\ Len(errs) <= 1
    /\ aborted <=> Len(errs) = 1
    /\ aborted => errs[1] \in TokensOf(Values)
    /\ (Opt # NullOpt /\ ~DistinctAdmittedTokens) => aborted
    /\ \A i \in 1..Len(Values) :
          /\ Values[i].first \in { Token(P) : P \in AdmittedRegistered }
          /\ Values[i] = EntryOf(FirstAdmitted(Values[i].first))
          /\ \A j \in 1..Len(Values) : Values[j].first = Values[i].first => j = i

C5_Step ==
    \A P \in PassIds :
        (Registers(P) /\ Opt # NullOpt /\ Admitted(P)) =>
            IF Token(P) \in TokensOf(Values)
            THEN /\ aborted'
                 /\ errs' = Append(errs, Token(P))
                 /\ Values' = Values
            ELSE /\ ~aborted'
                 /\ errs' = errs
                 /\ Values' = Append(Values, EntryOf(P))

C6_BaseRuleAlwaysApplies ==
    /\ \A P \in PassIds : ~BaseRule(P) => ~Admitted(P)
    /\ \A i \in 1..Len(Values) :
          /\ Values[i].first # << >>
          /\ BaseRule(Values[i].second.first)

\* an attached filtered parser was handed a pass without constructor whose
\* token is in the allow-list, a pass with the empty token (which strstr
\* finds in any list) and a pass with a null token, and has no entry
C6_Witness ==
    /\ Filtered
    /\ Opt # NullOpt
    /\ attachedAt = 1
    /\ Len(registry) = 3
    /\ \E P \in Range(registry) :
          /\ getPassArgument(P) # NullPtr
          /\ Token(P) \in AllowedTokens(Args)
          /\ ~getNormalCtor(P)
    /\ \E P \in Range(registry) : getPassArgument(P) = << << >> >> /\ PassArgFilter(P)
    /\ \E P \in Range(registry) : getPassArgument(P) = NullPtr
    /\ Values = << >>

(***************************************************************************)
(* C7: when initialize returns, every admitted pass that was registered    *)
(* before the call has its entry in Values.                                *)
(***************************************************************************)
C7_ReplayOnAttach ==
    [][(Attaches /\ ~aborted') =>
          \A P \in Range(registry) :
              Admitted(P) => \E i \in 1..Len(Values') : Values'[i] = EntryOf(P)]_vars

\* initialize has just run over three registered passes, two of them admitted
C7_Witness ==
    /\ attaches = 1
    /\ ~aborted
    /\ attachedAt = 3
    /\ Len(registry) = 3
    /\ renders = << >>
    /\ Cardinality(AdmittedRegistered) = 2
    /\ Len(Values) = 2

(***************************************************************************)
(* C8: what printOptionInfo hands to cl::parser::printOptionInfo is a      *)
(* permutation of the entries Values held, ascending by token under        *)
(* byte-wise comparison.                                                   *)
(***************************************************************************)
C8_RenderedAscendingByToken ==
    \A i \in 1..Len(renders) :
        /\ SameEntries(renders[i].shown, renders[i].before)
        /\ AscendingByToken(renders[i].shown)

\* mem2reg, dce, adce are printed as adce, dce, mem2reg
C8_Witness ==
    \E i \in 1..Len(renders) :
        /\ [k \in 1..Len(renders[i].before) |-> renders[i].before[k].first]
              = <<Str_mem2reg, Str_dce, Str_adce>>
        /\ [k \in 1..Len(renders[i].shown) |-> renders[i].shown[k].first]
              = <<Str_adce, Str_dce, Str_mem2reg>>

(***************************************************************************)
(* C9, as claimed: of two printOptionInfo calls in a row the second prints *)
(* what the first printed, and leaves Values as it was before the first.   *)
(***************************************************************************)
C9_TwiceSameOutputValuesUntouched ==
    \A i \in 2..Len(renders) :
        /\ renders[i].shown = renders[i - 1].shown
        /\ renders[i].after = renders[i - 1].before

(***************************************************************************)
(* C9, amended: of two printOptionInfo calls in a row the second prints    *)
(* what the first printed, and leaves Values as the first left it: the     *)
(* entries it held before the first, ascending by token.                   *)
(***************************************************************************)
C9_TwiceSameOutputValuesAsSorted ==
    \A i \in 2..Len(renders) :
        /\ renders[i].shown = renders[i - 1].shown
        /\ renders[i].before = renders[i - 1].after
        /\ renders[i].after = renders[i - 1].after
        /\ SameEntries(renders[i].after, renders[i - 1].before)

\* two renderings in a row of three entries that were not in token order
C9_Witness ==
    /\ Len(renders) = 2
    /\ Len(renders[1].before) = 3
    /\ renders[1].before # renders[1].after
    /\ Values = renders[2].after

(***************************************************************************)
(* C10: a registration that reaches the parser while Opt is null, or of a  *)
(* pass that is not admitted, changes neither Values nor Opt nor the       *)
(* aborted flag (and reports nothing).                                     *)
(***************************************************************************)
C10_DroppedRegistrationIsNoOp ==
    [][\A P \in PassIds :
          (Registers(P) /\ (~Admitted(P) \/ Opt = NullOpt)) =>
              /\ Values' = Values
              /\ Opt' = Opt
              /\ aborted' = aborted
              /\ errs' = errs]_vars

\* one pass was registered before initialize; after it a pass was admitted
\* and then a pass without constructor carrying the same token was dropped
C10_Witness ==
    /\ ~aborted
    /\ attaches = 1
    /\ attachedAt = 1
    /\ Len(registry) = 3
    /\ Len(Values) = 2
    /\ ~Admitted(registry[3])
    /\ getPassArgument(registry[3]) # NullPtr
    /\ Token(registry[3]) = Values[2].first

(***************************************************************************)
(* C11: entries are permanent.  Every step keeps every entry of Values,    *)
(* with its token, pass and name, exactly as often as before; a            *)
(* registration adds one entry when the pass is admitted, the parser is    *)
(* attached and the token is new, and none otherwise; initialize adds only *)
(* entries of registered admitted passes, one per new token; a rendering   *)
(* adds none.                                                              *)
(***************************************************************************)
C11_Step ==
    /\ \A e \in Range(Values) : Occurrences(Values', e) = Occurrences(Values, e)
    /\ \A P \in PassIds :
          Registers(P) =>
              Len(Values') =
                  IF Admitted(P) /\ Opt # NullOpt /\ Token(P) \notin TokensOf(Values)
                  THEN Len(Values) + 1
                  ELSE Len(Values)
    /\ Attaches =>
          /\ Range(Values') \subseteq
                Range(Values) \cup { EntryOf(P) : P \in AdmittedRegistered }
          /\ Len(Values') = Cardinality(TokensOf(Values'))
    /\ renders' # << >> => Len(Values') = Len(Values)

C11_EntriesArePermanent == [][C11_Step]_vars

\* three entries, the first two created by the replay of initialize and
\* since reordered by a rendering, the third by a later registration
C11_Witness ==
    /\ ~aborted
    /\ attaches = 1
    /\ attachedAt = 2
    /\ Len(registry) = 3
    /\ \A i \in 1..3 : Admitted(registry[i])
    /\ Values = <<EntryOf(registry[2]), EntryOf(registry[1]), EntryOf(registry[3])>>

(***************************************************************************)
(* C12: the process aborts only when an admitted pass is delivered, by a   *)
(* registration or by the replay of initialize, to an attached parser that *)
(* holds an entry with the same token.  It has not aborted while the       *)
(* parser is unattached, nor after a single initialize while the admitted  *)
(* passes have pairwise distinct tokens, whatever else was registered or   *)
(* rendered.  After the abort Values never changes.                        *)
(***************************************************************************)
C12_State ==
    aborted =>
        /\ Opt # NullOpt
        /\ errs # << >>
        /\ errs[1] \in TokensOf(Values)
        /\ \E P \in AdmittedRegistered : Token(P) = errs[1]
        /\ (~DistinctAdmittedTokens \/ attaches >= 2)

C12_Step ==
    /\ (~aborted /\ aborted') =>
          \/ \E P \in PassIds :
                /\ Registers(P)
                /\ Admitted(P)
                /\ Opt # NullOpt
                /\ Token(P) \in TokensOf(Values)
          \/ /\ Attaches
             /\ \E P \in AdmittedRegistered :
                   /\ errs' = <<Token(P)>>
                   /\ Token(P) \in TokensOf(Values')
    /\ aborted => (Values' = Values /\ aborted')

C12_AbortOnlyOnDuplicate == []C12_State /\ [][C12_Step]_vars

\* a pass without constructor called dse, dropped, then two admitted passes
\* called dse delivered to the attached parser
C12_Witness ==
    /\ aborted
    /\ attaches = 1
    /\ attachedAt = 0
    /\ Len(registry) = 3
    /\ ~Admitted(registry[2])
    /\ getPassArgument(registry[2]) = <<Str_dse>>
    /\ Admitted(registry[1]) /\ Admitted(registry[3])
    /\ Values = <<EntryOf(registry[1])>>
    /\ errs = <<Str_dse>>

(***************************************************************************)
(* C13: ignorablePass evaluates the base rule first and the refinement     *)
(* second: ignorablePassImpl (the allow-list filter of a filtered parser)  *)
(* has been evaluated on exactly the registered passes with a non-null,    *)
(* non-empty argument and a constructor, and so never on a pass whose      *)
(* argument is null.                                                       *)
(***************************************************************************)
C13_BaseRuleBeforeRefinement ==
    /\ \A P \in implCalls :
          /\ getPassArgument(P) # NullPtr
          /\ getPassArgument(P)[1] # << >>
          /\ getNormalCtor(P)
    /\ implCalls = { P \in Range(registry) : BaseRule(P) }

\* a filtered, attached parser was handed a pass with a null argument, a
\* pass without constructor and a pass the filter accepts: the filter ran
\* on the last one only
C13_Witness ==
    /\ Filtered
    /\ Opt # NullOpt
    /\ Len(registry) = 3
    /\ \E P \in Range(registry) : getPassArgument(P) = NullPtr
    /\ \E P \in Range(registry) : getPassArgument(P) # NullPtr /\ ~getNormalCtor(P)
    /\ \E P \in Range(registry) : Admitted(P) /\ implCalls = {P} /\ Values = <<EntryOf(P)>>

(***************************************************************************)
(* C14: renderings do not weaken registration.  Whatever renderings came   *)
(* before and whatever order Values is in, the registration of an admitted *)
(* pass with an attached parser appends exactly its entry when no admitted *)
(* pass with its token was registered before, and otherwise reports the    *)
(* token, aborts and leaves Values as it was.                              *)
(***************************************************************************)
C14_Step ==
    \A P \in PassIds :
        (Registers(P) /\ Opt # NullOpt /\ Admitted(P)) =>
            IF \E Q \in AdmittedRegistered : Token(Q) = Token(P)
            THEN /\ aborted'
                 /\ errs' = <<Token(P)>>
                 /\ Values' = Values
            ELSE /\ ~aborted'
                 /\ Values' = Append(Values, EntryOf(P))
                 /\ Len(Values') = Cardinality(AdmittedRegistered) + 1

C14_RegistrationAfterRendering == [][C14_Step]_vars

\* two passes registered live, a rendering that swapped their entries, then a
\* third pass registered: its entry follows the two sorted ones
C14_Witness ==
    /\ ~aborted
    /\ attaches = 1
    /\ attachedAt = 0
    /\ Len(registry) = 3
    /\ \A i \in 1..3 : Admitted(registry[i])
    /\ Values = <<EntryOf(registry[2]), EntryOf(registry[1]), EntryOf(registry[3])>>

(***************************************************************************)
(* C15: initialize is not repeatable.  Called on a parser that holds an    *)
(* entry (so called before), it replays the registered passes, meets the   *)
(* first admitted one again, reports its token and aborts, Values left as  *)
(* it was.  A parser initialized more than once in a process that has not  *)
(* aborted held no entry, and had no admitted pass to replay, at its last  *)
(* initialize.                                                             *)
(***************************************************************************)
C15_State ==
    /\ Values # << >> => attaches >= 1
    /\ (attaches >= 2 /\ ~aborted) =>
          \A i \in 1..attachedAt : ~Admitted(registry[i])

C15_Step ==
    (Attaches /\ Values # << >>) =>
        /\ attaches >= 1
        /\ aborted'
        /\ Values' = Values
        /\ \E P \in AdmittedRegistered :
              /\ errs' = <<Token(P)>>
              /\ EntryOf(P) \in Range(Values)
              /\ P = FirstAdmitted(Token(P))

C15_SecondAttachIsFatal == []C15_State /\ [][C15_Step]_vars

\* admitted passes with pairwise distinct tokens, two entries, and a second
\* initialize that aborted the process
C15_Witness ==
    /\ aborted
    /\ attaches = 2
    /\ DistinctAdmittedTokens
    /\ Len(Values) = 2
    /\ attachedAt = Len(registry)

====
